---- MODULE Spec2Model ----
(***************************************************************************)
(* Model of checker.py: the batch grading harness.  main_runner lists the  *)
(* submissions directory, and for each eligible file run_tests_for_student *)
(* loads the submission, registers it as sys.modules["exam"], loads the    *)
(* rewritten test suite, runs the tests through JSONTestResult and returns *)
(* either an envelope or a one-record failure list.                        *)
(*                                                                         *)
(* Strings that the code inspects (file names, test method names) are      *)
(* sequences of one-character strings; other texts are opaque strings.     *)
(***************************************************************************)
EXTENDS Integers, Sequences, FiniteSets, TLC

\* ------------------------------------------------------------------ bounds
MaxFiles == 2

\* ------------------------------------------------------------- small helpers
Range(s) == {s[k] : k \in 1..Len(s)}

SeqMax(S) == CHOOSE m \in S : \A x \in S : x <= m

\* str.endswith(suffix)
EndsWith(s, suf) ==
    /\ Len(s) >= Len(suf)
    /\ SubSeq(s, Len(s) - Len(suf) + 1, Len(s)) = suf

\* str.rfind(ch), 1-based, 0 when absent
RFind(s, ch) ==
    LET hits == {k \in 1..Len(s) : s[k] = ch}
    IN  IF hits = {} THEN 0 ELSE SeqMax(hits)

\* os.path.splitext on a bare file name (no directory separator): the
\* extension starts at the last dot, unless only dots precede that dot.
splitext(p) ==
    LET dotIndex == RFind(p, ".")
    IN  IF dotIndex > 0 /\ \E k \in 1..(dotIndex - 1) : p[k] # "."
        THEN <<SubSeq(p, 1, dotIndex - 1), SubSeq(p, dotIndex, Len(p))>>
        ELSE <<p, <<>>>>

PyExt == <<".", "p", "y">>

\* a listing filter that keeps every entry
FilterPy_KeepAll(names) == names

\* [file for file in os.listdir(exams_dir) if file.endswith(".py")]
RECURSIVE FilterPy(_)
FilterPy(names) ==
    IF names = <<>> THEN <<>>
    ELSE IF EndsWith(Head(names), PyExt)
         THEN <<Head(names)>> \o FilterPy(Tail(names))
         ELSE FilterPy(Tail(names))

\* ord(c) for the characters that occur in test method names
Ord(c) == CASE c = "_" -> 95 [] c = "a" -> 97 [] c = "b" -> 98 [] c = "c" -> 99
            [] c = "d" -> 100 [] c = "e" -> 101 [] c = "s" -> 115
            [] c = "t" -> 116 [] OTHER -> 122

\* s < t for strings, as Python compares them
RECURSIVE StrLess(_, _)
StrLess(s, t) ==
    IF t = <<>> THEN FALSE
    ELSE IF s = <<>> THEN TRUE
    ELSE IF Ord(Head(s)) # Ord(Head(t)) THEN Ord(Head(s)) < Ord(Head(t))
    ELSE StrLess(Tail(s), Tail(t))

\* ---------------------------------------------------------- input domains
\* The symbols a suite may expect from the submission and what a definition
\* of one does when a test calls it: "good" returns the expected value, "bad"
\* returns a wrong value (the test's assertion fails), "raise" raises an
\* exception other than AssertionError (SystemExit included: unittest's
\* executor catches it as an error).  "absent": the submission has no such
\* definition.  One more submission has a function that raises
\* KeyboardInterrupt ("interrupt"), one a function that never returns
\* ("loop"), and one has top-level code that never ends (top "loop").
Symbols == {"f", "g"}
Beh == {"absent", "good", "bad", "raise"}

NoDefs == [s \in Symbols |-> "absent"]

\* A submission source file: the names its top-level code imports from
\* "exam", the functions it defines, how its top-level code ends ("ok",
\* "raise" = raises an Exception such as SyntaxError, "exit" = sys.exit()),
\* and whether open(path, 'r').read() can decode it (the import system
\* decodes the source by its coding declaration, open() by the locale).
Source(imports, defs, top, readable) ==
    [imports |-> imports, defs |-> defs, top |-> top, readable |-> readable]

\* what a submission defines: nothing, or the expected symbols with at
\* least one of them working
Definitions ==
    {NoDefs} \cup {d \in [Symbols -> Beh] : \E s \in Symbols : d[s] = "good"}

Contents ==
    {Source({}, d, "ok", TRUE) : d \in Definitions}
    \cup {Source({}, NoDefs, t, TRUE) : t \in {"raise", "exit"}}
    \cup {Source({"f"}, [NoDefs EXCEPT !["g"] = b], "ok", TRUE) : b \in {"absent", "good"}}
    \cup {Source({}, [NoDefs EXCEPT !["f"] = b], "ok", FALSE) : b \in {"good", "bad"}}
    \cup {Source({}, [f |-> "interrupt", g |-> "good"], "ok", TRUE)}
    \cup {Source({}, [f |-> "loop", g |-> "good"], "ok", TRUE)}
    \cup {Source({}, NoDefs, "loop", TRUE)}

FewContents ==
    {Source({}, [s \in Symbols |-> "good"], "ok", TRUE),
     Source({}, NoDefs, "raise", TRUE),
     Source({}, NoDefs, "exit", TRUE)}

\* file names of the submissions directory
APy == <<"a", ".", "p", "y">>
BPy == <<"b", ".", "p", "y">>
CPy == <<"c", ".", "p", "y">>
DirNames ==
    {APy, BPy, <<".", "p", "y">>, <<"a", ".", "t", "x", "t">>,
     <<"a", "p", "y">>, <<"a", ".", "p", "y", "c">>, <<"a", ".", "b", ".", "p", "y">>,
     <<".", "p", "y", ".", "p", "y">>}

\* test methods: name, docstring lines, body (calls of expected symbols, each
\* followed by an assertion on the returned value; "skip" is self.skipTest())
Test(name, doc, body) == [name |-> name, doc |-> doc, body |-> body]
Call(fn) == [op |-> "call", fn |-> fn]
SkipStep == [op |-> "skip", fn |-> ""]

TestB == Test(<<"t", "e", "s", "t", "_", "b">>, <<"Test 1">>, <<Call("f")>>)
TestA == Test(<<"t", "e", "s", "t", "_", "a">>, <<>>, <<Call("g")>>)
TestD == Test(<<"t", "e", "s", "t", "_", "d">>, <<"Test 3">>, <<Call("f"), Call("g")>>)
TestC == Test(<<"t", "e", "s", "t", "_", "c">>, <<"Test 4">>, <<SkipStep, Call("f")>>)

\* lines of a suite source
Stmt(raises) == [kind |-> "stmt", raises |-> raises, names |-> <<>>, tests |-> <<>>]
FromExamImport(names) ==
    [kind |-> "from_exam_import", raises |-> FALSE, names |-> names, tests |-> <<>>]
TryImport(fn) ==
    [kind |-> "try_import", raises |-> FALSE, names |-> <<fn>>, tests |-> <<>>]
TestCaseClass(tests) ==
    [kind |-> "class", raises |-> FALSE, names |-> <<>>, tests |-> tests]
\* a TestCase class whose tearDownClass raises
TestCaseClassTearDown(tests) ==
    [kind |-> "class_teardown", raises |-> TRUE, names |-> <<>>, tests |-> tests]

\* shaped like tests/ejB.test.py: imports, the dependency line, one TestCase
\* class whose methods are not declared in name order
SuiteMain ==
    [exists |-> TRUE,
     lines |-> <<Stmt(FALSE), FromExamImport(<<"f", "g">>),
                 TestCaseClass(<<TestB, TestA, TestD>>)>>]
SuiteSkip ==
    [exists |-> TRUE,
     lines |-> <<Stmt(FALSE), FromExamImport(<<"f", "g">>),
                 TestCaseClass(<<TestB, TestC, TestA>>)>>]
\* a suite whose own top-level code raises
SuiteBroken ==
    [exists |-> TRUE,
     lines |-> <<Stmt(TRUE), FromExamImport(<<"f", "g">>),
                 TestCaseClass(<<TestB>>)>>]
\* a suite whose class-level fixture raises after the tests of the class
SuiteTearDown ==
    [exists |-> TRUE,
     lines |-> <<Stmt(FALSE), FromExamImport(<<"f", "g">>),
                 TestCaseClassTearDown(<<TestB, TestA>>)>>]
\* suites without a dependency line: one that loads (its test then finds no
\* f) and one whose own top-level code raises
SuiteNoDep ==
    [exists |-> TRUE, lines |-> <<Stmt(FALSE), TestCaseClass(<<TestB>>)>>]
SuiteNoDepBroken ==
    [exists |-> TRUE, lines |-> <<Stmt(TRUE), TestCaseClass(<<TestB>>)>>]
\* two dependency lines
SuiteTwoDeps ==
    [exists |-> TRUE,
     lines |-> <<FromExamImport(<<"f">>), FromExamImport(<<"g">>),
                 TestCaseClass(<<TestB, TestA>>)>>]
\* dependency lines with a malformed symbol list: "from exam import f, g as h"
\* and "from exam import" with nothing behind it
SuiteMalformed ==
    [exists |-> TRUE,
     lines |-> <<FromExamImport(<<"f", "g as h">>), Stmt(FALSE),
                 TestCaseClass(<<TestB>>)>>]
SuiteEmptyList ==
    [exists |-> TRUE,
     lines |-> <<FromExamImport(<<>>), Stmt(FALSE), FromExamImport(<<"g">>),
                 TestCaseClass(<<TestA>>)>>]
\* no file at the suite's path
SuiteMissing == [exists |-> FALSE, lines |-> <<>>]
Suites == {SuiteMain, SuiteSkip, SuiteBroken, SuiteTearDown, SuiteNoDep,
           SuiteNoDepBroken, SuiteTwoDeps, SuiteMalformed, SuiteEmptyList,
           SuiteMissing}

ASSIGNMENT == "EJOB_1_B"

\* ------------------------------------------------------------- exceptions
\* An exception: its class and its message (a sequence of text pieces).
Exc(type, msg) == [type |-> type, msg |-> msg]

\* "except Exception" catches everything but the BaseException-only classes
IsException(e) == e.type \notin {"SystemExit", "KeyboardInterrupt", "GeneratorExit"}

\* "except ImportError" (ModuleNotFoundError is a subclass)
IsImportError(e) == e.type \in {"ImportError", "ModuleNotFoundError"}

\* str(e)
Str(e) == e.msg

\* what a call that never returns gives: nothing (neither value nor exception)
Never == Exc("(never returns)", <<>>)

\* unittest.TestResult._exc_info_to_string: the formatted traceback, which
\* ends with the exception class and message
_exc_info_to_string(e) == <<"Traceback (most recent call last):", e.type>> \o e.msg

\* ----------------------------------------------------- the module registry
\* sys.modules restricted to the "exam" key: a function with domain {} or
\* {"exam"}.  A module object: the file it was loaded from and its namespace.
NoModules == [k \in {} |-> 0]
\* a registration that keeps an existing entry (sys.modules.setdefault)
Register_KeepFirst(mods, key, module) ==
    [k \in (DOMAIN mods) \cup {key} |-> IF k \in DOMAIN mods THEN mods[k] ELSE module]

Register(mods, key, module) ==
    [k \in (DOMAIN mods) \cup {key} |-> IF k = key THEN module ELSE mods[k]]

NoFile == <<>>
\* one resolution of the name "exam" in sys.modules: on whose behalf (the
\* submission being processed) and which file's module it produced
Lookup(by, mods) ==
    [by |-> by, got |-> IF "exam" \in DOMAIN mods THEN mods["exam"].file ELSE NoFile]

\* "from exam import <name>": the value bound, or the ImportError raised
ImportFromExam(mods, name) ==
    IF "exam" \notin DOMAIN mods
    THEN [ok |-> FALSE, beh |-> "absent", file |-> NoFile,
          exc |-> Exc("ModuleNotFoundError", <<"No module named 'exam'">>)]
    ELSE IF mods["exam"].ns[name] = "absent"
    THEN [ok |-> FALSE, beh |-> "absent", file |-> NoFile,
          exc |-> Exc("ImportError", <<"cannot import name '", name, "' from 'exam'">>)]
    ELSE [ok |-> TRUE, beh |-> mods["exam"].ns[name], file |-> mods["exam"].file,
          exc |-> Exc("", <<>>)]

\* ------------------------------------------------- load_module_from_path
\* a loader whose module does not keep the names it imported
load_module_from_path_NoImportBinding(module_name, module_path, files, mods) ==
    LET src == files[module_path]
        imps == {ImportFromExam(mods, n) : n \in src.imports}
        failed == {r \in imps : ~r.ok}
        looks == IF src.imports = {} THEN {} ELSE {Lookup(module_path, mods)}
        ns == [s \in Symbols |->
                 src.defs[s]]
    IN  IF failed # {}
        THEN [ok |-> FALSE, module |-> [file |-> NoFile, ns |-> NoDefs],
              exc |-> (CHOOSE r \in failed : TRUE).exc, looks |-> looks, mods |-> mods]
        ELSE IF src.top = "raise"
        THEN [ok |-> FALSE, module |-> [file |-> NoFile, ns |-> NoDefs],
              exc |-> Exc("SyntaxError", <<"invalid syntax">>), looks |-> looks, mods |-> mods]
        ELSE IF src.top = "exit"
        THEN [ok |-> FALSE, module |-> [file |-> NoFile, ns |-> NoDefs],
              exc |-> Exc("SystemExit", <<"0">>), looks |-> looks, mods |-> mods]
        ELSE IF src.top = "loop"
        THEN [ok |-> FALSE, module |-> [file |-> NoFile, ns |-> NoDefs],
              exc |-> Never, looks |-> looks, mods |-> mods]
        ELSE [ok |-> TRUE, module |-> [file |-> module_path, ns |-> ns],
              exc |-> Exc("", <<>>), looks |-> looks, mods |-> mods]

\* a loader that follows the importlib recipe: sys.modules[module_name] is
\* set before the code is executed, and stays set
load_module_from_path_Registers(module_name, module_path, files, mods) ==
    LET src == files[module_path]
        imps == {ImportFromExam(mods, n) : n \in src.imports}
        failed == {r \in imps : ~r.ok}
        looks == IF src.imports = {} THEN {} ELSE {Lookup(module_path, mods)}
        ns == [s \in Symbols |->
                 IF src.defs[s] # "absent" THEN src.defs[s]
                 ELSE IF s \in src.imports THEN ImportFromExam(mods, s).beh
                 ELSE "absent"]
    IN  IF failed # {}
        THEN [ok |-> FALSE, module |-> [file |-> NoFile, ns |-> NoDefs],
              exc |-> (CHOOSE r \in failed : TRUE).exc, looks |-> looks,
              mods |-> Register(mods, module_name, [file |-> module_path, ns |-> ns])]
        ELSE IF src.top = "raise"
        THEN [ok |-> FALSE, module |-> [file |-> NoFile, ns |-> NoDefs],
              exc |-> Exc("SyntaxError", <<"invalid syntax">>), looks |-> looks,
              mods |-> Register(mods, module_name, [file |-> module_path, ns |-> ns])]
        ELSE IF src.top = "exit"
        THEN [ok |-> FALSE, module |-> [file |-> NoFile, ns |-> NoDefs],
              exc |-> Exc("SystemExit", <<"0">>), looks |-> looks,
              mods |-> Register(mods, module_name, [file |-> module_path, ns |-> ns])]
        ELSE IF src.top = "loop"
        THEN [ok |-> FALSE, module |-> [file |-> NoFile, ns |-> NoDefs],
              exc |-> Never, looks |-> looks,
              mods |-> Register(mods, module_name, [file |-> module_path, ns |-> ns])]
        ELSE [ok |-> TRUE, module |-> [file |-> module_path, ns |-> ns],
              exc |-> Exc("", <<>>), looks |-> looks,
              mods |-> Register(mods, module_name, [file |-> module_path, ns |-> ns])]

\* Executes the file's top-level code in a fresh module that is NOT put in
\* sys.modules: imports from "exam" resolve against the registry as it is,
\* then the definitions are made, then the code may raise or exit.
\* Result: the module, or the exception raised; the lookups of "exam"; and
\* the registry after the call.
load_module_from_path(module_name, module_path, files, mods) ==
    LET src == files[module_path]
        imps == {ImportFromExam(mods, n) : n \in src.imports}
        failed == {r \in imps : ~r.ok}
        looks == IF src.imports = {} THEN {} ELSE {Lookup(module_path, mods)}
        ns == [s \in Symbols |->
                 IF src.defs[s] # "absent" THEN src.defs[s]
                 ELSE IF s \in src.imports THEN ImportFromExam(mods, s).beh
                 ELSE "absent"]
    IN  IF failed # {}
        THEN [ok |-> FALSE, module |-> [file |-> NoFile, ns |-> NoDefs],
              exc |-> (CHOOSE r \in failed : TRUE).exc, looks |-> looks, mods |-> mods]
        ELSE IF src.top = "raise"
        THEN [ok |-> FALSE, module |-> [file |-> NoFile, ns |-> NoDefs],
              exc |-> Exc("SyntaxError", <<"invalid syntax">>), looks |-> looks, mods |-> mods]
        ELSE IF src.top = "exit"
        THEN [ok |-> FALSE, module |-> [file |-> NoFile, ns |-> NoDefs],
              exc |-> Exc("SystemExit", <<"0">>), looks |-> looks, mods |-> mods]
        ELSE IF src.top = "loop"
        THEN [ok |-> FALSE, module |-> [file |-> NoFile, ns |-> NoDefs],
              exc |-> Never, looks |-> looks, mods |-> mods]
        ELSE [ok |-> TRUE, module |-> [file |-> module_path, ns |-> ns],
              exc |-> Exc("", <<>>), looks |-> looks, mods |-> mods]

\* --------------------------------------------- load_test_module_from_path
\* The globals of the executed suite: the bound symbols, whether the name
\* "e" is bound, and the test methods of the TestCase class, as declared.
\* A symbol is bound to the submission's function (its behaviour and file)
\* or to the fallback stub generated for it.
EmptyGlobals == [funcs |-> [k \in {} |-> 0], e_bound |-> FALSE, tests |-> <<>>,
                 tearDownClass |-> "none"]
FuncBinding(beh, file) == [kind |-> "func", beh |-> beh, file |-> file]
StubBinding == [kind |-> "stub", beh |-> "absent", file |-> NoFile]
Bind(funcs, name, b) ==
    [k \in (DOMAIN funcs) \cup {name} |-> IF k = name THEN b ELSE funcs[k]]

\* the text of a line, as far as the pattern and the compiler look at it
LineText(l) ==
    CASE l.kind = "stmt" -> IF l.raises THEN "undefined_name" ELSE "X = 1"
      [] l.kind = "from_exam_import" -> "from exam import ..."
      [] l.kind = "try_import" -> "try: ..."
      [] OTHER -> "class T(unittest.TestCase): ..."

\* a name that Python accepts after "import" and after "def"
IsIdentifier(fn) == fn \in Symbols

\* re.search(pattern, test_source, re.MULTILINE) with the pattern
\* ^from\s+exam\s+import\s+(.+)$ : index of the first line that starts a
\* match, 0 when there is none.  The \s+ before the group also matches the
\* end of the line: a line with nothing behind "import" starts a match that
\* runs over the next line, if there is one.
FirstMatch(lines) ==
    LET hits == {k \in 1..Len(lines) :
                    /\ lines[k].kind = "from_exam_import"
                    /\ (lines[k].names # <<>> \/ k < Len(lines))}
    IN  IF hits = {} THEN 0 ELSE CHOOSE k \in hits : \A j \in hits : k <= j

\* the last line of the match that starts at line m
MatchEnd(lines, m) == IF lines[m].names = <<>> THEN m + 1 ELSE m

\* match.group(1).split(","), stripped: the pieces of the matched list
func_list(lines, m) ==
    IF lines[m].names = <<>> THEN <<LineText(lines[m + 1])>> ELSE lines[m].names

\* the replacement text: one try-import/except-stub block per listed name
Replacement(names) == [k \in 1..Len(names) |-> TryImport(names[k])]

\* a rewrite that puts stubs in front of a source without a dependency line
Rewrite_PrependStubs(lines) ==
    LET m == FirstMatch(lines)
    IN  IF m = 0 THEN Replacement(<<"f", "g">>) \o lines
        ELSE SubSeq(lines, 1, m - 1) \o Replacement(func_list(lines, m))
             \o SubSeq(lines, MatchEnd(lines, m) + 1, Len(lines))

\* a rewrite that leaves the dependency line as written
Rewrite_Unchanged(lines) == lines

\* re.sub(pattern, replacement, test_source, count=1, flags=re.MULTILINE)
Rewrite(lines) ==
    LET m == FirstMatch(lines)
    IN  IF m = 0 THEN lines
        ELSE SubSeq(lines, 1, m - 1) \o Replacement(func_list(lines, m))
             \o SubSeq(lines, MatchEnd(lines, m) + 1, Len(lines))

\* from exam import n1, n2, ... (unrewritten): all names or ImportError
RECURSIVE ImportAll(_, _, _)
ImportAll(names, funcs, mods) ==
    IF names = <<>> THEN [ok |-> TRUE, funcs |-> funcs, exc |-> Exc("", <<>>)]
    ELSE LET r == ImportFromExam(mods, Head(names))
         IN  IF ~r.ok THEN [ok |-> FALSE, funcs |-> funcs, exc |-> r.exc]
             ELSE ImportAll(Tail(names), Bind(funcs, Head(names),
                                             FuncBinding(r.beh, r.file)), mods)

\* exec(test_source, test_module.__dict__): the statements in order.
\*   try: from exam import fn
\*   except ImportError as e: def fn(*args, **kwargs): raise ImportError(...)
\* binds fn to the function or to the stub; "e" is unbound again when the
\* except clause ends.
RECURSIVE exec(_, _, _, _)
exec(lines, g, mods, by) ==
    IF lines = <<>>
    THEN [ok |-> TRUE, g |-> g, exc |-> Exc("", <<>>), looks |-> {}, mods |-> mods]
    ELSE
      LET l == Head(lines) IN
      CASE l.kind = "stmt" ->
             IF l.raises
             THEN [ok |-> FALSE, g |-> g, exc |-> Exc("NameError", <<"suite">>),
                   looks |-> {}, mods |-> mods]
             ELSE exec(Tail(lines), g, mods, by)
        [] l.kind = "from_exam_import" ->
             LET r == ImportAll(l.names, g.funcs, mods) IN
             IF ~r.ok
             THEN [ok |-> FALSE, g |-> g, exc |-> r.exc, looks |-> {Lookup(by, mods)},
                   mods |-> mods]
             ELSE LET rest == exec(Tail(lines), [g EXCEPT !.funcs = r.funcs], mods, by)
                  IN  [rest EXCEPT !.looks = @ \cup {Lookup(by, mods)}]
        [] l.kind = "try_import" ->
             LET fn == l.names[1]
                 r == ImportFromExam(mods, fn)
                 b == IF r.ok THEN FuncBinding(r.beh, r.file) ELSE StubBinding
                 rest == exec(Tail(lines),
                              [g EXCEPT !.funcs = Bind(@, fn, b), !.e_bound = FALSE],
                              mods, by)
             IN  IF r.ok \/ IsImportError(r.exc)
                 THEN [rest EXCEPT !.looks = @ \cup {Lookup(by, mods)}]
                 ELSE [ok |-> FALSE, g |-> g, exc |-> r.exc, looks |-> {Lookup(by, mods)},
                       mods |-> mods]
        [] l.kind = "class_teardown" ->
             exec(Tail(lines), [g EXCEPT !.tests = @ \o l.tests,
                                         !.tearDownClass = "raise"], mods, by)
        [] OTHER ->
             exec(Tail(lines), [g EXCEPT !.tests = @ \o l.tests], mods, by)

\* exec compiles the whole text before it runs any of it: an import or a
\* stub definition with a name that is no identifier is a SyntaxError
Compiles(lines) ==
    \A k \in 1..Len(lines) :
        lines[k].kind \in {"from_exam_import", "try_import"} =>
            /\ lines[k].names # <<>>
            /\ \A n \in 1..Len(lines[k].names) : IsIdentifier(lines[k].names[n])

load_test_module_from_path(module_name, module_path, suiteFile, mods, by) ==
    IF ~suiteFile.exists
    THEN [ok |-> FALSE, g |-> EmptyGlobals,
          exc |-> Exc("FileNotFoundError", <<"No such file">>), looks |-> {},
          mods |-> mods]
    ELSE IF ~Compiles(Rewrite(suiteFile.lines))
    THEN [ok |-> FALSE, g |-> EmptyGlobals,
          exc |-> Exc("SyntaxError", <<"invalid syntax">>), looks |-> {},
          mods |-> mods]
    ELSE exec(Rewrite(suiteFile.lines), EmptyGlobals, mods, by)

\* --------------------------------------------------------------- TestResult
\* lines 27-30: the values of the enumeration
TestResult == {"PASSED", "FAILED", "ERROR"}

\* ------------------------------------------------------- running one test
Outcome(kind, exc) == [kind |-> kind, exc |-> exc]

\* The fallback stub's body:
\*   raise ImportError('Function "fn" not found. ' + str(e))
\* "e" is a global of the suite module, looked up when the stub is called.
CallStub(fn, g) ==
    IF g.e_bound
    THEN Exc("ImportError", <<"Function \"", fn, "\" not found. ", "cause">>)
    ELSE Exc("NameError", <<"name 'e' is not defined">>)

\* The test method's body: each call is followed by an assertion on what it
\* returned.  unittest's executor turns AssertionError into a failure,
\* SkipTest into a skip and any other exception into an error, except
\* KeyboardInterrupt, which it re-raises ("interrupt").
RECURSIVE RunBody(_, _)
RunBody(steps, g) ==
    IF steps = <<>> THEN Outcome("success", Exc("", <<>>))
    ELSE
      LET st == Head(steps) IN
      IF st.op = "skip" THEN Outcome("skip", Exc("SkipTest", <<"skipped">>))
      ELSE IF st.fn \notin DOMAIN g.funcs
      THEN Outcome("error", Exc("NameError", <<"name '", st.fn, "' is not defined">>))
      ELSE LET b == g.funcs[st.fn] IN
           CASE b.kind = "stub" -> Outcome("error", CallStub(st.fn, g))
             [] b.beh = "bad" ->
                  Outcome("failure", Exc("AssertionError", <<"values differ">>))
             [] b.beh = "raise" ->
                  Outcome("error", Exc("RuntimeError", <<"raised by ", st.fn>>))
             [] b.beh = "interrupt" ->
                  Outcome("interrupt", Exc("KeyboardInterrupt", <<>>))
             [] b.beh = "loop" -> Outcome("hang", Never)
             [] OTHER -> RunBody(Tail(steps), g)

\* --------------------------------------------------------- JSONTestResult
\* results: the collector's own list; the other fields are the base class's
\* bookkeeping (testsRun and the lengths of failures, errors, skipped).
NewResult == [results |-> <<>>, testsRun |-> 0, failures |-> 0, errors |-> 0,
              skipped |-> 0]

\* test.shortDescription() or ""
Description(test) == IF test.doc = <<>> THEN "" ELSE test.doc[1]

Record(test, description, result, reason) ==
    [test |-> test, description |-> description, result |-> result, reason |-> reason]

addSuccess(res, test) ==
    [res EXCEPT !.results = Append(@, Record(test.name, Description(test), "PASSED",
                                            <<"Test passed successfully">>))]

\* a collector that records the failure without the base class's bookkeeping
addFailure_InsteadOfBase(res, test, err) ==
    [res EXCEPT !.results = Append(@, Record(test.name, Description(test), "FAILED",
                                            _exc_info_to_string(err)))]

addFailure(res, test, err) ==
    [res EXCEPT !.results = Append(@, Record(test.name, Description(test), "FAILED",
                                            _exc_info_to_string(err))),
                !.failures = @ + 1]

\* a collector that writes a status outside the TestResult enumeration
addError_Lowercase(res, test, err) ==
    [res EXCEPT !.results = Append(@, Record(test.name, Description(test), "error",
                                            _exc_info_to_string(err))),
                !.errors = @ + 1]

addError(res, test, err) ==
    [res EXCEPT !.results = Append(@, Record(test.name, Description(test), "ERROR",
                                            _exc_info_to_string(err))),
                !.errors = @ + 1]

\* addError for a failed class fixture: unittest passes an _ErrorHolder, which
\* is not a TestCase, and reading its _testMethodName raises
addError_ErrorHolder ==
    Exc("AttributeError", <<"'_ErrorHolder' object has no attribute '_testMethodName'">>)

\* not overridden by JSONTestResult: unittest.TestResult.addSkip
addSkip(res, test) == [res EXCEPT !.skipped = @ + 1]

\* TestCase.run(result): startTest, the body, then the notification
RunOne(res, test, g) ==
    LET started == [res EXCEPT !.testsRun = @ + 1]
        o == RunBody(test.body, g)
    IN  CASE o.kind = "success" -> addSuccess(started, test)
          [] o.kind = "failure" -> addFailure(started, test, o.exc)
          [] o.kind = "error" -> addError(started, test, o.exc)
          [] o.kind \in {"interrupt", "hang"} -> started
          [] OTHER -> addSkip(started, test)

\* ---------------------------------- unittest.defaultTestLoader (the order)
TestPrefix == <<"t", "e", "s", "t">>
StartsWith(s, pre) == Len(s) >= Len(pre) /\ SubSeq(s, 1, Len(pre)) = pre

RECURSIVE InsertByName(_, _)
InsertByName(t, sorted) ==
    IF sorted = <<>> THEN <<t>>
    ELSE IF StrLess(t.name, Head(sorted).name) THEN <<t>> \o sorted
    ELSE <<Head(sorted)>> \o InsertByName(t, Tail(sorted))

RECURSIVE SortByName(_)
SortByName(tests) ==
    IF tests = <<>> THEN <<>>
    ELSE InsertByName(Head(tests), SortByName(Tail(tests)))

\* a loader that keeps the methods in the order of their declaration
loadTestsFromModule_Declared(g) ==
    SelectSeq(g.tests, LAMBDA t : StartsWith(t.name, TestPrefix))

\* loadTestsFromModule: the methods whose name starts with "test", sorted by
\* name (getTestCaseNames sorts with the default three-way string compare)
loadTestsFromModule(g) ==
    SortByName(SelectSeq(g.tests, LAMBDA t : StartsWith(t.name, TestPrefix)))

\* ------------------------------------------------------------------ state
VARIABLES
    dirExists,            \* os.path.isdir(exams_dir)
    listing,              \* os.listdir(exams_dir), in listing order
    files,                \* file name -> source of the file
    suite,                \* the suite file at test_module_path
    sys_modules,          \* the interpreter's module registry ("exam" key)
    pc,                   \* main_runner: "start", "loop", "call", "done", "crashed"
    python_files,         \* main_runner's list of eligible files
    i,                    \* main_runner's loop position (1-based)
    final_results,        \* main_runner's dict, as ordered <<key, value>> pairs
    retval,               \* what main_runner returned
    rpc,                  \* run_tests_for_student: "idle", "LOADING_SUBMISSION",
                          \* "LOADING_SUITE", "EXECUTING", "DONE", "FAILED", "RAISED"
    student_module_path,  \* the runner's argument
    test_module,          \* the loaded suite's globals
    run_started,          \* runner.run(suite) has begun
    queue,                \* the tests of the TestSuite still to run
    result,               \* the JSONTestResult
    test_output,          \* the runner's return value
    lookups,              \* history: every resolution of "exam" in sys.modules
    stages,               \* history: the stages the current runner call entered
                          \* ("DONE": runner.run returned, the read-back began)
    executed,             \* history: the tests the current runner call has run
    parsed_json           \* the caller's json.loads(json_results)

vars == <<dirExists, listing, files, suite, sys_modules, pc, python_files, i,
          final_results, retval, rpc, student_module_path, test_module,
          run_started, queue, result, test_output, lookups, stages, executed,
          parsed_json>>

env == <<dirExists, listing, files, suite>>

\* a text that the code does not look into
Text(str) == <<str>>

\* f.read() of a submission / of the suite file
ReadSubmission(fs, path) == <<fs[path]>>
\* open(student_module_path, 'r') ... f.read(): the text, or the decoding error
open_read(fs, path) ==
    IF fs[path].readable
    THEN [ok |-> TRUE, text |-> ReadSubmission(fs, path), exc |-> Exc("", <<>>)]
    ELSE [ok |-> FALSE, text |-> <<>>,
          exc |-> Exc("UnicodeDecodeError", <<"'utf-8' codec can't decode byte">>)]
ReadSuite(suiteFile) == suiteFile.lines

NoOutput == [type |-> "none", value |-> <<>>]
ListOutput(records) == [type |-> "list", value |-> records]
DictOutput(doc) == [type |-> "dict", value |-> doc]

\* main_runner's return values: "" and json.dumps(final_results), the
\* serialized mapping
EmptyString == [type |-> "str", value |-> <<>>]
dumps(d) == [type |-> "json", value |-> d]

\* the one-record list returned by the runner's except clauses
FailureList(test, description, e) ==
    ListOutput(<<Record(Text(test), description, "failed", Str(e))>>)

\* a main_runner that stores the failure list without the two source fields
StoredValue_NoSources(out, assignment) ==
    IF out.type = "list"
    THEN [results |-> out.value, assignment |-> assignment]
    ELSE out.value

\* lines 290-298: what main_runner stores for a runner output
StoredValue(out, assignment) ==
    IF out.type = "list"
    THEN [results |-> out.value, exam |-> <<>>, testCode |-> <<>>,
          assignment |-> assignment]
    ELSE out.value

\* json.loads: the mapping of a serialized document; "" is not a document
loads(str) ==
    IF str.type = "json"
    THEN [type |-> "dict", value |-> str.value]
    ELSE [type |-> "JSONDecodeError", value |-> <<>>]

\* a dict that puts a new key in front of the others
DictSet_Prepend(d, key, value) ==
    IF \E k \in 1..Len(d) : d[k][1] = key
    THEN [k \in 1..Len(d) |-> IF d[k][1] = key THEN <<key, value>> ELSE d[k]]
    ELSE <<(<<key, value>>)>> \o d

\* d[key] = value on a dict that keeps insertion order
DictSet(d, key, value) ==
    IF \E k \in 1..Len(d) : d[k][1] = key
    THEN [k \in 1..Len(d) |-> IF d[k][1] = key THEN <<key, value>> ELSE d[k]]
    ELSE Append(d, <<key, value>>)

Keys(d) == {d[k][1] : k \in 1..Len(d)}
Get(d, key) == d[CHOOSE k \in 1..Len(d) : d[k][1] = key][2]

\* sequences of distinct elements of S, of length 0..n
DistinctSeqs(S, n) ==
    UNION {{q \in [1..k -> S] : \A a, b \in 1..k : a # b => q[a] # q[b]} : k \in 0..n}

\* the first 0..n names of a.py, b.py, c.py
Prefixes(n) ==
    LET all == <<APy, BPy, CPy>>
    IN  {SubSeq(all, 1, k) : k \in 0..(IF n < Len(all) THEN n ELSE Len(all))}

InitWith(listings, contents, suites) ==
    /\ dirExists \in BOOLEAN
    /\ listing \in listings
    /\ files \in [Range(listing) -> contents]
    /\ \A f \in Range(listing) :
          ~EndsWith(f, PyExt) => files[f] = Source({}, NoDefs, "raise", TRUE)
    /\ dirExists = FALSE => listing = <<>>
    /\ suite \in suites
    /\ sys_modules = NoModules
    /\ pc = "start"
    /\ python_files = <<>>
    /\ i = 0
    /\ final_results = <<>>
    /\ retval = NoOutput
    /\ rpc = "idle"
    /\ student_module_path = NoFile
    /\ test_module = EmptyGlobals
    /\ run_started = FALSE
    /\ queue = <<>>
    /\ result = NewResult
    /\ test_output = NoOutput
    /\ lookups = {}
    /\ stages = <<>>
    /\ executed = <<>>
    /\ parsed_json = NoOutput

Init == InitWith(Prefixes(MaxFiles), Contents, Suites)
InitDir == InitWith(DistinctSeqs(DirNames, MaxFiles), FewContents, {SuiteMain, SuiteBroken})

\* -------------------------------------------------------------- main_runner
\* a main_runner that answers a missing directory with the empty Batch Result
MainStart_EmptyBatch ==
    /\ pc = "start"
    /\ IF ~dirExists
       THEN /\ pc' = "done"
            /\ retval' = dumps(final_results)
            /\ UNCHANGED <<python_files, i>>
       ELSE /\ pc' = "loop"
            /\ python_files' = FilterPy(listing)
            /\ i' = 1
            /\ UNCHANGED retval
    /\ UNCHANGED <<parsed_json, env, sys_modules, final_results, rpc, student_module_path,
                   test_module, run_started, queue, result, test_output, lookups,
                   stages, executed>>

\* lines 269-280: the directory check and the listing
MainStart ==
    /\ pc = "start"
    /\ IF ~dirExists
       THEN /\ pc' = "done"
            /\ retval' = EmptyString
            /\ UNCHANGED <<python_files, i>>
       ELSE /\ pc' = "loop"
            /\ python_files' = FilterPy(listing)
            /\ i' = 1
            /\ UNCHANGED retval
    /\ UNCHANGED <<parsed_json, env, sys_modules, final_results, rpc, student_module_path,
                   test_module, run_started, queue, result, test_output, lookups,
                   stages, executed>>

\* lines 281-287: the next file; run_tests_for_student is entered
CallRunner ==
    /\ pc = "loop"
    /\ i <= Len(python_files)
    /\ pc' = "call"
    /\ student_module_path' = python_files[i]
    /\ rpc' = "LOADING_SUBMISSION"
    /\ stages' = <<"LOADING_SUBMISSION">>
    /\ executed' = <<>>
    /\ test_module' = EmptyGlobals
    /\ run_started' = FALSE
    /\ queue' = <<>>
    /\ result' = NewResult
    /\ test_output' = NoOutput
    /\ UNCHANGED <<parsed_json, env, sys_modules, python_files, i, final_results, retval, lookups>>

\* lines 288-298: the runner has returned; its output is stored under the
\* student's name
StoreResult ==
    /\ pc = "call"
    /\ rpc \in {"DONE", "FAILED"}
    /\ LET student_name == splitext(python_files[i])[1]
       IN  final_results' = DictSet(final_results, student_name,
                                    StoredValue(test_output, ASSIGNMENT))
    /\ i' = i + 1
    /\ pc' = "loop"
    /\ rpc' = "idle"
    /\ UNCHANGED <<parsed_json, env, sys_modules, python_files, retval, student_module_path,
                   test_module, run_started, queue, result, test_output, lookups,
                   stages, executed>>

\* lines 299-300: json.dumps(final_results)
MainReturn ==
    /\ pc = "loop"
    /\ i > Len(python_files)
    /\ pc' = "done"
    /\ retval' = dumps(final_results)
    /\ UNCHANGED <<parsed_json, env, sys_modules, python_files, i, final_results, rpc,
                   student_module_path, test_module, run_started, queue, result,
                   test_output, lookups, stages, executed>>

\* lines 305-310, the caller: it parses what main_runner returned; a parse
\* error sends it to its "except Exception" branch (line 547) with no results
Caller ==
    /\ pc = "done"
    /\ parsed_json = NoOutput
    /\ parsed_json' = loads(retval)
    /\ UNCHANGED <<env, sys_modules, pc, python_files, i, final_results, retval, rpc,
                   student_module_path, test_module, run_started, queue, result,
                   test_output, lookups, stages, executed>>

\* ---------------------------------------------------- run_tests_for_student
\* (the two description texts are written without their accent)
\* a runner that unregisters "exam" when the submission cannot be loaded
LoadSubmission_ClearsOnFailure ==
    /\ rpc = "LOADING_SUBMISSION"
    /\ load_module_from_path("exam", student_module_path, files, sys_modules).exc # Never
    /\ LET r == load_module_from_path("exam", student_module_path, files, sys_modules)
       IN  /\ lookups' = lookups \cup r.looks
           /\ IF r.ok
              THEN /\ sys_modules' = Register(r.mods, "exam", r.module)
                   /\ rpc' = "LOADING_SUITE"
                   /\ stages' = Append(stages, "LOADING_SUITE")
                   /\ UNCHANGED <<test_output, pc>>
              ELSE IF IsException(r.exc)
              THEN /\ test_output' = FailureList("ModuleLoadError",
                                        "El modulo del estudiante no pudo cargarse", r.exc)
                   /\ rpc' = "FAILED"
                   /\ stages' = Append(stages, "FAILED")
                   /\ sys_modules' = NoModules
                   /\ UNCHANGED pc
              ELSE /\ rpc' = "RAISED"
                   /\ pc' = "crashed"
                   /\ sys_modules' = r.mods
                   /\ UNCHANGED <<test_output, stages>>
    /\ UNCHANGED <<parsed_json, env, python_files, i, final_results, retval, student_module_path,
                   test_module, run_started, queue, result, executed>>

\* A call that never returns is a step that is never taken: the runner
\* stays where it is.
\* lines 194-204: load the submission and register it as "exam".  An
\* exception that "except Exception" does not catch leaves the runner and
\* main_runner, which has no handler.
LoadSubmission ==
    /\ rpc = "LOADING_SUBMISSION"
    /\ load_module_from_path("exam", student_module_path, files, sys_modules).exc # Never
    /\ LET r == load_module_from_path("exam", student_module_path, files, sys_modules)
       IN  /\ lookups' = lookups \cup r.looks
           /\ IF r.ok
              THEN /\ sys_modules' = Register(r.mods, "exam", r.module)
                   /\ rpc' = "LOADING_SUITE"
                   /\ stages' = Append(stages, "LOADING_SUITE")
                   /\ UNCHANGED <<test_output, pc>>
              ELSE IF IsException(r.exc)
              THEN /\ test_output' = FailureList("ModuleLoadError",
                                        "El modulo del estudiante no pudo cargarse", r.exc)
                   /\ rpc' = "FAILED"
                   /\ stages' = Append(stages, "FAILED")
                   /\ sys_modules' = r.mods
                   /\ UNCHANGED pc
              ELSE /\ rpc' = "RAISED"
                   /\ pc' = "crashed"
                   /\ sys_modules' = r.mods
                   /\ UNCHANGED <<test_output, stages>>
    /\ UNCHANGED <<parsed_json, env, python_files, i, final_results, retval, student_module_path,
                   test_module, run_started, queue, result, executed>>

\* a runner that lets the suite's exception go
LoadSuite_Fatal ==
    /\ rpc = "LOADING_SUITE"
    /\ LET r == load_test_module_from_path("exam_test_module", suite, suite,
                                            sys_modules, student_module_path)
       IN  /\ lookups' = lookups \cup r.looks
           /\ sys_modules' = r.mods
           /\ IF r.ok
              THEN /\ test_module' = r.g
                   /\ rpc' = "EXECUTING"
                   /\ stages' = Append(stages, "EXECUTING")
                   /\ UNCHANGED <<test_output, pc>>
              ELSE IF ~IsException(r.exc)
              THEN /\ test_output' = FailureList("TestModuleLoadError",
                                        "El modulo de tests no pudo cargarse", r.exc)
                   /\ rpc' = "FAILED"
                   /\ stages' = Append(stages, "FAILED")
                   /\ UNCHANGED <<test_module, pc>>
              ELSE /\ rpc' = "RAISED"
                   /\ pc' = "crashed"
                   /\ UNCHANGED <<test_module, test_output, stages>>
    /\ UNCHANGED <<parsed_json, env, python_files, i, final_results, retval,
                   student_module_path, run_started, queue, result, executed>>

\* lines 205-215: load the rewritten suite
LoadSuite ==
    /\ rpc = "LOADING_SUITE"
    /\ LET r == load_test_module_from_path("exam_test_module", suite, suite,
                                            sys_modules, student_module_path)
       IN  /\ lookups' = lookups \cup r.looks
           /\ sys_modules' = r.mods
           /\ IF r.ok
              THEN /\ test_module' = r.g
                   /\ rpc' = "EXECUTING"
                   /\ stages' = Append(stages, "EXECUTING")
                   /\ UNCHANGED <<test_output, pc>>
              ELSE IF IsException(r.exc)
              THEN /\ test_output' = FailureList("TestModuleLoadError",
                                        "El modulo de tests no pudo cargarse", r.exc)
                   /\ rpc' = "FAILED"
                   /\ stages' = Append(stages, "FAILED")
                   /\ UNCHANGED <<test_module, pc>>
              ELSE /\ rpc' = "RAISED"
                   /\ pc' = "crashed"
                   /\ UNCHANGED <<test_module, test_output, stages>>
    /\ UNCHANGED <<parsed_json, env, python_files, i, final_results, retval,
                   student_module_path, run_started, queue, result, executed>>

\* lines 218-222: enumerate the suite's tests, make the runner and its result
LoadTests ==
    /\ rpc = "EXECUTING"
    /\ ~run_started
    /\ run_started' = TRUE
    /\ queue' = loadTestsFromModule(test_module)
    /\ result' = NewResult
    /\ UNCHANGED <<parsed_json, env, sys_modules, pc, python_files, i, final_results, retval, rpc,
                   student_module_path, test_module, test_output, lookups, stages,
                   executed>>

\* line 222, runner.run(suite): the next test runs and notifies the result.
\* A KeyboardInterrupt raised in the test leaves runner.run, is not caught by
\* "except Exception" and leaves the runner and main_runner.
\* After the last test of the class its tearDownClass runs; when that raises,
\* the collector is notified with an _ErrorHolder, the notification raises
\* and the exception leaves runner.run for the handler of lines 239-245.
RunTest ==
    /\ rpc = "EXECUTING"
    /\ run_started
    /\ queue # <<>>
    /\ RunBody(Head(queue).body, test_module).kind # "hang"
    /\ result' = RunOne(result, Head(queue), test_module)
    /\ queue' = Tail(queue)
    /\ executed' = Append(executed, Head(queue).name)
    /\ IF RunBody(Head(queue).body, test_module).kind = "interrupt"
       THEN /\ rpc' = "RAISED"
            /\ pc' = "crashed"
            /\ UNCHANGED <<test_output, stages>>
       ELSE IF Tail(queue) = <<>> /\ test_module.tearDownClass = "raise"
       THEN /\ test_output' = FailureList("TestExecutionError",
                                 "Error durante la ejecucion de los tests",
                                 addError_ErrorHolder)
            /\ rpc' = "FAILED"
            /\ stages' = Append(stages, "FAILED")
            /\ UNCHANGED pc
       ELSE UNCHANGED <<test_output, rpc, stages, pc>>
    /\ UNCHANGED <<parsed_json, env, sys_modules, python_files, i, final_results, retval,
                   student_module_path, test_module, run_started, lookups>>

\* lines 224-238: runner.run has returned; read the two sources back and
\* return the envelope.  The reads are inside the try of line 216: when one
\* raises, the handler of lines 239-245 returns its one-record list.
ReadBack ==
    /\ rpc = "EXECUTING"
    /\ run_started
    /\ queue = <<>>
    /\ LET r == open_read(files, student_module_path)
       IN  IF r.ok
           THEN /\ test_output' = DictOutput([results |-> result.results,
                                              exam |-> r.text,
                                              testCode |-> ReadSuite(suite),
                                              assignment |-> ASSIGNMENT])
                /\ rpc' = "DONE"
                /\ stages' = Append(stages, "DONE")
           ELSE /\ test_output' = FailureList("TestExecutionError",
                                     "Error durante la ejecucion de los tests", r.exc)
                /\ rpc' = "FAILED"
                /\ stages' = Append(Append(stages, "DONE"), "FAILED")
    /\ UNCHANGED <<parsed_json, env, sys_modules, pc, python_files, i, final_results, retval,
                   student_module_path, test_module, run_started, queue, result,
                   lookups, executed>>

Next ==
    \/ MainStart
    \/ CallRunner
    \/ LoadSubmission
    \/ LoadSuite
    \/ LoadTests
    \/ RunTest
    \/ ReadBack
    \/ StoreResult
    \/ MainReturn
    \/ Caller

Spec == Init /\ [][Next]_vars
\* one interpreter thread runs main_runner: as long as a step can be taken,
\* one is taken
FairSpec == Init /\ [][Next]_vars /\ WF_vars(Next)
SpecDir == InitDir /\ [][Next]_vars

\* The runner as a function of the registry it starts from: the value it
\* returns, or that an exception left it.
RECURSIVE RunAll(_, _, _)
RunAll(tests, res, g) ==
    IF tests = <<>> THEN res ELSE RunAll(Tail(tests), RunOne(res, Head(tests), g), g)

Raised == [type |-> "raised", value |-> <<>>]
NoReturn == [type |-> "never", value |-> <<>>]

\* the first test of the list that does not come back to the runner: it
\* never returns or raises KeyboardInterrupt; 0 when every test comes back
FirstLost(tests, g) ==
    LET lost == {k \in 1..Len(tests) :
                    RunBody(tests[k].body, g).kind \in {"interrupt", "hang"}}
    IN  IF lost = {} THEN 0 ELSE CHOOSE k \in lost : \A j \in lost : k <= j

run_tests_for_student(path, suiteFile, assignment, fs, mods) ==
    LET r1 == load_module_from_path("exam", path, fs, mods) IN
    IF r1.exc = Never THEN NoReturn
    ELSE IF ~r1.ok
    THEN IF IsException(r1.exc)
         THEN FailureList("ModuleLoadError",
                          "El modulo del estudiante no pudo cargarse", r1.exc)
         ELSE Raised
    ELSE
      LET r2 == load_test_module_from_path("exam_test_module", suiteFile, suiteFile,
                                           Register(r1.mods, "exam", r1.module), path) IN
      IF ~r2.ok
      THEN IF IsException(r2.exc)
           THEN FailureList("TestModuleLoadError",
                            "El modulo de tests no pudo cargarse", r2.exc)
           ELSE Raised
      ELSE
        LET tests == loadTestsFromModule(r2.g)
            r3 == open_read(fs, path)
            lost == FirstLost(tests, r2.g)
        IN  IF lost # 0
            THEN IF RunBody(tests[lost].body, r2.g).kind = "hang" THEN NoReturn
                 ELSE Raised
            ELSE IF tests # <<>> /\ r2.g.tearDownClass = "raise"
            THEN FailureList("TestExecutionError",
                             "Error durante la ejecucion de los tests",
                             addError_ErrorHolder)
            ELSE IF ~r3.ok
            THEN FailureList("TestExecutionError",
                             "Error durante la ejecucion de los tests", r3.exc)
            ELSE DictOutput([results |-> RunAll(tests, NewResult, r2.g).results,
                             exam |-> r3.text,
                             testCode |-> ReadSuite(suiteFile),
                             assignment |-> assignment])

\* ================================================================ properties
Contains(text, part) ==
    \E k \in 1..(Len(text) - Len(part) + 1) : SubSeq(text, k, k + Len(part) - 1) = part

RecordNames(records) == [k \in 1..Len(records) |-> records[k].test]

\* the symbols whose call a test body reaches in the globals g
RECURSIVE Invoked(_, _)
Invoked(steps, g) ==
    IF steps = <<>> THEN {}
    ELSE IF Head(steps).op = "skip" THEN {}
    ELSE IF Head(steps).fn \notin DOMAIN g.funcs THEN {Head(steps).fn}
    ELSE IF g.funcs[Head(steps).fn].kind = "func" /\ g.funcs[Head(steps).fn].beh = "good"
    THEN {Head(steps).fn} \cup Invoked(Tail(steps), g)
    ELSE {Head(steps).fn}

\* the declared test with a given method name, and its place in the source
DeclIndex(name) ==
    CHOOSE k \in 1..Len(test_module.tests) : test_module.tests[k].name = name
TestNamed(name) == test_module.tests[DeclIndex(name)]
ExecIndex(name) == CHOOSE k \in 1..Len(executed) : executed[k] = name

StubbedSyms(g) == {fn \in DOMAIN g.funcs : g.funcs[fn].kind = "stub"}
WithoutStubs(g) ==
    [g EXCEPT !.funcs = [k \in (DOMAIN g.funcs) \ StubbedSyms(g) |-> g.funcs[k]]]

EligibleFiles == {f \in Range(listing) : EndsWith(f, PyExt)}

\* C1: when the directory exists and main_runner has returned, the keys of
\* the Batch Result are exactly the names derived from the listing's entries
\* that end in ".py" (so none for an ineligible entry, one for every
\* eligible entry however its run ended, and no key at all when there is no
\* eligible entry).
C1_KeysAreEligibleNames ==
    (dirExists /\ pc = "done") =>
        /\ retval.type = "json"
        /\ Keys(retval.value) = {splitext(f)[1] : f \in EligibleFiles}

C1_Witness ==
    /\ dirExists /\ pc = "done"
    /\ \E f \in EligibleFiles : files[f].top = "raise"
    /\ Range(listing) # EligibleFiles
    /\ Len(retval.value) = 1

\* C2: no exception or exit raised while one submission is processed leaves
\* run_tests_for_student: the runner never ends by raising.
C2_NothingLeavesTheRunner == rpc # "RAISED" /\ pc # "crashed"

\* C3: every recorded test that invoked a symbol missing from the submission
\* has status ERROR and a reason containing 'Function "<name>" not found.'.
C3_MissingSymbolIsReported ==
    \A k \in 1..Len(result.results) :
        LET rec == result.results[k] IN
        \A fn \in Invoked(TestNamed(rec.test).body, test_module) \cap StubbedSyms(test_module) :
            /\ rec.result = "ERROR"
            /\ Contains(rec.reason, <<"Function \"", fn, "\" not found. ">>)

WellFormedSuite(sf) ==
    /\ sf.exists
    /\ \A k \in 1..Len(sf.lines) : ~sf.lines[k].raises
    /\ Cardinality({k \in 1..Len(sf.lines) : sf.lines[k].kind = "from_exam_import"}) = 1
    /\ Compiles(sf.lines)

\* C4: with a suite that has one dependency line and loads by itself, the
\* runner never returns TestModuleLoadError, whichever of the listed symbols
\* the submission defines; and the record of a test that invokes no stub is
\* the record it gets when the stubs are not there at all.
C4_SuiteLoadsWithAnySubset ==
    /\ (WellFormedSuite(suite) /\ rpc = "FAILED") =>
           test_output.value[1].test # Text("TestModuleLoadError")
    /\ (WellFormedSuite(suite) /\ rpc \in {"EXECUTING", "DONE"}) =>
           DOMAIN test_module.funcs = Symbols
    /\ \A k \in 1..Len(result.results) :
           LET rec == result.results[k]
               t == TestNamed(rec.test)
           IN  Invoked(t.body, test_module) \cap StubbedSyms(test_module) = {} =>
                 RunOne(NewResult, t, WithoutStubs(test_module)).results = <<rec>>

C4_Witness ==
    /\ rpc = "DONE"
    /\ StubbedSyms(test_module) # {}
    /\ \E k \in 1..Len(result.results) :
          Invoked(TestNamed(result.results[k].test).body, test_module)
              \cap StubbedSyms(test_module) = {}

\* C5: every resolution of "exam" made while a submission is processed
\* yields that submission's own module or fails.
C5_ExamIsOwnNamespace == \A l \in lookups : l.got \in {l.by, NoFile}

\* C6: the value stored for a submission is the value it gets when it is
\* processed alone, from an empty registry.
C6_ResultEqualsSoloResult ==
    \A j \in 1..Len(python_files) :
        j < i =>
          Get(final_results, splitext(python_files[j])[1])
            = StoredValue(run_tests_for_student(python_files[j], suite, ASSIGNMENT,
                                                files, NoModules), ASSIGNMENT)

\* C7 (as claimed): the records of an envelope are in the order in which the
\* test methods are declared in the suite source.
C7_DeclaredOrder ==
    test_output.type = "dict" =>
        \A a, b \in 1..Len(test_output.value.results) :
            a < b => DeclIndex(test_output.value.results[a].test)
                       < DeclIndex(test_output.value.results[b].test)

\* C7 (amended): the records of an envelope are in execution order, which is
\* ascending order of test method name, whatever each test's outcome.
C7_NameOrder ==
    test_output.type = "dict" =>
        \A a, b \in 1..Len(test_output.value.results) :
            a < b => /\ StrLess(test_output.value.results[a].test,
                                test_output.value.results[b].test)
                     /\ ExecIndex(test_output.value.results[a].test)
                          < ExecIndex(test_output.value.results[b].test)

C7_Witness ==
    /\ test_output.type = "dict"
    /\ \E a, b \in 1..Len(test_output.value.results) :
          /\ a < b
          /\ test_output.value.results[a].result # test_output.value.results[b].result
          /\ DeclIndex(test_output.value.results[a].test)
               > DeclIndex(test_output.value.results[b].test)

\* C8: in an envelope the records are, one for one and in order, the test
\* cases that were executed.
C8_OneRecordPerExecutedTest ==
    test_output.type = "dict" => RecordNames(test_output.value.results) = executed

\* C9: when a test case has failed or errored, the run still ends DONE with
\* an envelope in which that test has one record and every test declared
\* after it has been executed and has a record.
C9_FailureDoesNotAbort ==
    (rpc \in {"DONE", "FAILED"} /\ result.failures + result.errors > 0) =>
        /\ rpc = "DONE"
        /\ test_output.type = "dict"
        /\ \A k \in 1..Len(result.results) :
              result.results[k].result \in {"FAILED", "ERROR"} =>
                \A d \in 1..Len(test_module.tests) :
                    d > DeclIndex(result.results[k].test) =>
                      /\ test_module.tests[d].name \in Range(executed)
                      /\ test_module.tests[d].name
                            \in Range(RecordNames(test_output.value.results))

\* the current runner call has left LOADING_SUBMISSION without registering
\* the submission / has left LOADING_SUITE without a loaded suite
SubmissionLoadFailed ==
    /\ rpc \notin {"idle", "LOADING_SUBMISSION"}
    /\ "LOADING_SUITE" \notin Range(stages)
SuiteLoadFailed ==
    /\ rpc \notin {"idle", "LOADING_SUITE"}
    /\ "LOADING_SUITE" \in Range(stages)
    /\ "EXECUTING" \notin Range(stages)

OneFailureRecord(out, test) ==
    /\ out.type = "list"
    /\ Len(out.value) = 1
    /\ out.value[1].test = Text(test)
    /\ out.value[1].result = "failed"

\* C10: when loading the submission fails the runner returns exactly one
\* ModuleLoadError record whose reason is the exception text, without
\* loading the suite or running a test; when the submission loads and the
\* suite does not, exactly one TestModuleLoadError record, without running a
\* test.
C10_LoadFailureShortCircuits ==
    /\ SubmissionLoadFailed =>
          /\ rpc = "FAILED"
          /\ OneFailureRecord(test_output, "ModuleLoadError")
          /\ test_output.value[1].reason
                = Str(load_module_from_path("exam", student_module_path, files,
                                            sys_modules).exc)
          /\ test_module = EmptyGlobals
          /\ ~run_started /\ executed = <<>>
    /\ SuiteLoadFailed =>
          /\ rpc = "FAILED"
          /\ OneFailureRecord(test_output, "TestModuleLoadError")
          /\ ~run_started /\ executed = <<>>

\* ------------------------------------------------------- the stored values
SyntheticTests == {Text("ModuleLoadError"), Text("TestModuleLoadError"),
                   Text("TestExecutionError")}

EnvelopeFields == {"results", "exam", "testCode", "assignment"}

\* a stored value that carries the records of an executed suite
IsSuccessEnvelope(v) ==
    /\ DOMAIN v = EnvelopeFields
    /\ \A k \in 1..Len(v.results) : v.results[k].test \notin SyntheticTests

\* a stored value that carries the one-record failure list
IsSingletonFailure(v) ==
    /\ DOMAIN v = EnvelopeFields
    /\ Len(v.results) = 1
    /\ v.results[1].test \in SyntheticTests

\* main_runner is over: it returned, or an exception left it
BatchOver == pc \in {"done", "crashed"}

EntriesFor(f) == {k \in 1..Len(final_results) : final_results[k][1] = splitext(f)[1]}

\* C11: when the batch is over (the directory exists), the Batch Result has,
\* for every eligible file, exactly one entry under the file's derived name,
\* and its value is a success envelope or the singleton failure list.
C11_EverySubmissionHasEntry ==
    (dirExists /\ BatchOver) =>
        /\ retval.type = "json"
        /\ \A f \in EligibleFiles :
              /\ Cardinality(EntriesFor(f)) = 1
              /\ \A k \in EntriesFor(f) :
                    \/ IsSuccessEnvelope(retval.value[k][2])
                    \/ IsSingletonFailure(retval.value[k][2])

\* the value stored for the submission whose run has just been stored
LastStored == Get(final_results, splitext(python_files[i - 1])[1])
LastRunFailed == pc = "loop" /\ i > 1 /\ stages[Len(stages)] = "FAILED"

\* C12: every value of the Batch Result, stored or serialized, is a document
\* with exactly the fields results, exam, testCode and assignment; the value
\* stored for a run that ended FAILED has the runner's one-record failure
\* list as results and empty exam and testCode texts.
C12_StoredValueShape ==
    /\ \A k \in 1..Len(final_results) : DOMAIN final_results[k][2] = EnvelopeFields
    /\ retval.type = "json" =>
          \A k \in 1..Len(retval.value) : DOMAIN retval.value[k][2] = EnvelopeFields
    /\ LastRunFailed =>
          /\ test_output.type = "list"
          /\ LastStored.results = test_output.value
          /\ Len(LastStored.results) = 1
          /\ LastStored.results[1].result = "failed"
          /\ LastStored.exam = <<>>
          /\ LastStored.testCode = <<>>
          /\ LastStored.assignment = ASSIGNMENT

\* a returned Batch Result with a failure value and a success value
C12_Witness ==
    /\ pc = "done"
    /\ retval.type = "json"
    /\ \E j, k \in 1..Len(retval.value) :
          /\ IsSingletonFailure(retval.value[j][2])
          /\ retval.value[j][2].exam = <<>>
          /\ IsSuccessEnvelope(retval.value[k][2])
          /\ Len(retval.value[k][2].results) > 1
          /\ retval.value[k][2].exam # <<>>

\* C13: when the directory does not exist, main_runner returns at once with
\* the empty string, which is not a serialized Batch Result (not even the
\* empty one); no submission was listed or loaded, no suite loaded, no test
\* run, nothing stored, and the caller's parse of the return value fails.
C13_MissingDirectory ==
    (~dirExists /\ pc # "start") =>
        /\ pc = "done"
        /\ retval = EmptyString
        /\ retval # dumps(<<>>)
        /\ final_results = <<>>
        /\ python_files = <<>>
        /\ rpc = "idle" /\ stages = <<>> /\ executed = <<>> /\ ~run_started
        /\ sys_modules = NoModules /\ lookups = {}
        /\ parsed_json \in {NoOutput, [type |-> "JSONDecodeError", value |-> <<>>]}

\* the caller has received the missing directory's return value
C13_Witness ==
    ~dirExists /\ pc = "done" /\ parsed_json.type = "JSONDecodeError"

\* C14: in a returned Batch Result, two distinct eligible files have distinct
\* derived names and the number of entries is the number of eligible files.
C14_KeysUniquePerFile ==
    (dirExists /\ pc = "done") =>
        /\ \A f, g \in EligibleFiles : f # g => splitext(f)[1] # splitext(g)[1]
        /\ Len(retval.value) = Cardinality(EligibleFiles)

\* every Outcome Record in sight: the collector's, the runner's return value
\* and the values stored in the Batch Result
RecordsOf(out) ==
    IF out.type = "list" THEN Range(out.value)
    ELSE IF out.type = "dict" THEN Range(out.value.results)
    ELSE {}
AllRecords ==
    Range(result.results) \cup RecordsOf(test_output)
      \cup UNION {Range(final_results[k][2].results) : k \in 1..Len(final_results)}

\* C15 as stated: every Outcome Record, per-test or load-failure, has a
\* status in {PASSED, FAILED, ERROR}.
C15_StatusInEnumeration ==
    \A rec \in AllRecords : rec.result \in TestResult

\* C15, amended: a per-test record has a status in {PASSED, FAILED, ERROR};
\* a load-failure record (ModuleLoadError, TestModuleLoadError,
\* TestExecutionError) has the status "failed".
C15_StatusByKind ==
    \A rec \in AllRecords :
        IF rec.test \in SyntheticTests
        THEN rec.result = "failed"
        ELSE rec.result \in TestResult

\* a Batch Result with a load-failure record and per-test records of two
\* different statuses, one of them ERROR
C15_Witness ==
    /\ pc = "done"
    /\ \E rec \in AllRecords : rec.test \in SyntheticTests /\ rec.result = "failed"
    /\ \E r1, r2 \in AllRecords :
          /\ r1.test \notin SyntheticTests /\ r2.test \notin SyntheticTests
          /\ r1.result = "ERROR" /\ r2.result \in {"PASSED", "FAILED"}

\* the ordered Outcome Records of a runner output
OutcomeRecords(out) == IF out.type = "dict" THEN out.value.results ELSE out.value

\* C16: when a call of run_tests_for_student has returned, a second call on
\* the same submission file, suite file and assignment, started from the
\* registry the first call left behind, returns the same value, so the same
\* ordered Outcome Records.
C16_SecondRunSameRecords ==
    rpc \in {"DONE", "FAILED"} =>
        LET again == run_tests_for_student(student_module_path, suite, ASSIGNMENT,
                                           files, sys_modules)
        IN  /\ again.type = test_output.type
            /\ OutcomeRecords(again) = OutcomeRecords(test_output)
            /\ again = test_output

\* the second submission imported a name from the registered first one, was
\* registered in its place and its tests were run
C16_Witness ==
    /\ rpc = "DONE"
    /\ i = 2
    /\ files[student_module_path].imports # {}
    /\ sys_modules["exam"].file = student_module_path
    /\ Len(test_output.value.results) > 1

\* C19, the loaders' frame: applied to the registry as it is, neither
\* load_module_from_path nor load_test_module_from_path returns a changed
\* registry, whether it returns a module or raises; the registry never has a
\* key other than "exam".
C19_LoadersLeaveRegistry ==
    /\ rpc = "LOADING_SUBMISSION" =>
          load_module_from_path("exam", student_module_path, files, sys_modules).mods
              = sys_modules
    /\ rpc = "LOADING_SUITE" =>
          load_test_module_from_path("exam_test_module", suite, suite, sys_modules,
                                     student_module_path).mods = sys_modules
    /\ DOMAIN sys_modules \subseteq {"exam"}

\* C19, the registration: the registry changes only in the runner's step that
\* follows a successful load of the submission, and what it gains is that
\* submission's module under "exam".
C19_RegisteredOnlyByRunner ==
    sys_modules' # sys_modules =>
        /\ rpc = "LOADING_SUBMISSION" /\ rpc' = "LOADING_SUITE"
        /\ load_module_from_path("exam", student_module_path, files, sys_modules).ok
        /\ DOMAIN sys_modules' = {"exam"}
        /\ sys_modules'["exam"].file = student_module_path

StagePaths ==
    {<<>>,
     <<"LOADING_SUBMISSION">>,
     <<"LOADING_SUBMISSION", "FAILED">>,
     <<"LOADING_SUBMISSION", "LOADING_SUITE">>,
     <<"LOADING_SUBMISSION", "LOADING_SUITE", "FAILED">>,
     <<"LOADING_SUBMISSION", "LOADING_SUITE", "EXECUTING">>,
     <<"LOADING_SUBMISSION", "LOADING_SUITE", "EXECUTING", "FAILED">>,
     <<"LOADING_SUBMISSION", "LOADING_SUITE", "EXECUTING", "DONE">>}

\* C17: the stages a runner call has entered are LOADING_SUBMISSION,
\* LOADING_SUITE, EXECUTING, DONE in this order, cut short by FAILED only
\* from one of the first three (the suite is loaded only with the submission
\* registered, a test runs only with the suite loaded); once DONE has been
\* entered, all tests having run, the call ends with the success envelope.
C17_StagesInOrder ==
    /\ stages \in StagePaths
    /\ rpc = "LOADING_SUITE" =>
          "exam" \in DOMAIN sys_modules /\ test_module = EmptyGlobals /\ ~run_started
    /\ (run_started \/ executed # <<>>) => "EXECUTING" \in Range(stages)
    /\ "DONE" \in Range(stages) =>
          /\ queue = <<>>
          /\ stages[Len(stages)] = "DONE"
          /\ test_output.type = "dict"

\* an exception has left the test run of the current call during EXECUTING
RunEscaped ==
    /\ "EXECUTING" \in Range(stages)
    /\ "DONE" \notin Range(stages)
    /\ rpc \in {"FAILED", "RAISED"}

\* C18: when an exception has left the test run during EXECUTING, the runner
\* has returned exactly one record, with test "TestExecutionError" and result
\* "failed", and none of the records the collector holds is in it.
C18_EscapedExceptionOneRecord ==
    RunEscaped =>
        /\ rpc = "FAILED"
        /\ OneFailureRecord(test_output, "TestExecutionError")
        /\ \A rec \in Range(result.results) : rec \notin Range(test_output.value)

\* C20: the registry has at most the one entry "exam"; while the suite is
\* being loaded or the tests are being run for a submission, that entry is
\* the module loaded from that submission's file (with the namespace that
\* load produced), not the module of an earlier submission.
C20_ExamIsCurrentSubmission ==
    /\ DOMAIN sys_modules \subseteq {"exam"}
    /\ rpc \in {"LOADING_SUITE", "EXECUTING"} =>
          /\ "exam" \in DOMAIN sys_modules
          /\ sys_modules["exam"].file = student_module_path
          /\ sys_modules["exam"].file = python_files[i]
          /\ \A k \in 1..(i - 1) :
                python_files[k] # python_files[i] =>
                    sys_modules["exam"].file # python_files[k]

\* the second submission's tests are running after the first submission had
\* been registered
C20_Witness ==
    /\ rpc = "EXECUTING"
    /\ run_started
    /\ executed # <<>>
    /\ i = 2
    /\ Len(final_results) = 1
    /\ IsSuccessEnvelope(final_results[1][2])
    /\ sys_modules["exam"].file = python_files[2]

\* ------------------------------------------------------ the order of a batch
\* the keys of a dict, in insertion order
KeySeq(d) == [k \in 1..Len(d) |-> d[k][1]]

\* the student names derived from a list of files, in the list's order
DerivedNames(fs) == [k \in 1..Len(fs) |-> splitext(fs[k])[1]]

\* a sequence without the repetitions of its earlier elements
RECURSIVE FirstOccurrences(_)
FirstOccurrences(q) ==
    IF q = <<>> THEN <<>>
    ELSE LET init == FirstOccurrences(SubSeq(q, 1, Len(q) - 1))
         IN  IF q[Len(q)] \in Range(init) THEN init ELSE Append(init, q[Len(q)])

\* the eligible files of the listing, in listing order
EligibleInOrder == SelectSeq(listing, LAMBDA f : EndsWith(f, PyExt))

\* the files whose result has been stored
Processed == IF i = 0 THEN <<>> ELSE SubSeq(python_files, 1, i - 1)

\* C21: the files are taken in listing order, one at a time: a runner call is
\* in progress only for file i, with the results of files 1..i-1 and no other
\* stored; the keys of the Batch Result are, in insertion order, the names
\* derived from the processed files in listing order.
C21_OneAtATimeInListingOrder ==
    /\ (dirExists /\ pc # "start") => python_files = EligibleInOrder
    /\ rpc # "idle" =>
          /\ pc \in {"call", "crashed"}
          /\ i \in 1..Len(python_files)
          /\ student_module_path = python_files[i]
    /\ pc \in {"loop", "done"} => rpc = "idle"
    /\ KeySeq(final_results) = FirstOccurrences(DerivedNames(Processed))
    /\ retval.type = "json" =>
          KeySeq(retval.value) = FirstOccurrences(DerivedNames(EligibleInOrder))

\* a returned Batch Result for b.py listed before a.py, with an ineligible
\* entry or none
C21_Witness ==
    /\ pc = "done"
    /\ retval.type = "json"
    /\ python_files = <<BPy, APy>>
    /\ KeySeq(retval.value) = <<(<<"b">>), (<<"a">>)>>

\* ----------------------------------------------------------- the collector
\* the number of records with a given status
CountStatus(records, status) ==
    Cardinality({k \in 1..Len(records) : records[k].result = status})

\* C22, one notification: the step in which a test case runs and the
\* collector is notified of its success, failure or error appends exactly one
\* record, for that test, with the status of the notification's kind, the
\* fixed success reason or the formatted exception, and the test's short
\* description or "".
C22_NotificationStep ==
    (executed' # executed /\ executed' # <<>>) =>
        LET t == Head(queue)
            o == RunBody(t.body, test_module)
        IN  /\ result'.testsRun = result.testsRun + 1
            /\ o.kind \in {"success", "failure", "error"} =>
                  result'.results = Append(result.results,
                      [test |-> t.name,
                       description |-> IF t.doc = <<>> THEN "" ELSE t.doc[1],
                       result |-> CASE o.kind = "success" -> "PASSED"
                                    [] o.kind = "failure" -> "FAILED"
                                    [] OTHER -> "ERROR",
                       reason |-> IF o.kind = "success"
                                  THEN <<"Test passed successfully">>
                                  ELSE <<"Traceback (most recent call last):", o.exc.type>>
                                         \o o.exc.msg])

\* C22, the bookkeeping: the base class's counts of failures and errors
\* agree with the collector's FAILED and ERROR records.
C22_BaseBookkeeping ==
    /\ result.failures = CountStatus(result.results, "FAILED")
    /\ result.errors = CountStatus(result.results, "ERROR")
    /\ result.testsRun = Len(executed)

\* C22: the collector appends one record per notification about a test case,
\* in notification order, with status, reason and description as fixed by
\* the notification, in addition to the base class's bookkeeping.
C22_OneRecordPerNotification ==
    []C22_BaseBookkeeping /\ [][C22_NotificationStep]_vars

\* the collector holds a PASSED record with a description and a FAILED or
\* ERROR record without one
C22_Witness ==
    /\ \E k \in 1..Len(result.results) :
          result.results[k].result = "PASSED" /\ result.results[k].description = "Test 1"
    /\ \E k \in 1..Len(result.results) :
          result.results[k].result \in {"FAILED", "ERROR"}
            /\ result.results[k].description = ""
    /\ result.failures + result.errors > 0

\* ------------------------------------------------------------- the rewrite
\* the suite as it would run without any rewrite
Unmodified == exec(suite.lines, EmptyGlobals, sys_modules, student_module_path)

\* the runner has gone through LOADING_SUITE
SuiteStagePassed ==
    /\ "LOADING_SUITE" \in Range(stages)
    /\ rpc \notin {"idle", "LOADING_SUITE"}

\* C23: when no line of the suite file matches the dependency pattern, the
\* rewrite returns the source as it is and the loaded module is the one the
\* unmodified source gives; when that source raises while it is executed, the
\* runner returns the TestModuleLoadError record with the exception's text
\* and runs no test.
C23_NoMatchUnmodified ==
    (suite.exists /\ FirstMatch(suite.lines) = 0) =>
        /\ Rewrite(suite.lines) = suite.lines
        /\ (SuiteStagePassed /\ Unmodified.ok) =>
              /\ "EXECUTING" \in Range(stages)
              /\ test_module = Unmodified.g
              /\ StubbedSyms(test_module) = {}
        /\ (SuiteStagePassed /\ ~Unmodified.ok) =>
              /\ rpc = "FAILED"
              /\ OneFailureRecord(test_output, "TestModuleLoadError")
              /\ test_output.value[1].reason = Str(Unmodified.exc)
              /\ ~run_started /\ executed = <<>>

\* a suite without a dependency line has raised while it was loaded
C23_Witness ==
    /\ suite = SuiteNoDepBroken
    /\ FirstMatch(suite.lines) = 0
    /\ rpc = "FAILED"
    /\ OneFailureRecord(test_output, "TestModuleLoadError")

\* the first dependency line of a source, 0 when it has none
FirstDep(lines) ==
    LET deps == {k \in 1..Len(lines) : lines[k].kind = "from_exam_import"}
    IN  IF deps = {} THEN 0 ELSE CHOOSE k \in deps : \A j \in deps : k <= j

\* a source in which only its first dependency line is replaced, by one
\* try-import/except-stub block per piece of that line's list
FirstLineReplaced(lines) ==
    LET m == FirstDep(lines)
    IN  SubSeq(lines, 1, m - 1) \o Replacement(lines[m].names)
          \o SubSeq(lines, m + 1, Len(lines))

\* C24: a suite with one or several dependency lines, well-formed or not, is
\* rewritten in its first dependency line only: that line becomes one block
\* per listed symbol and every other line, later dependency lines included,
\* stays as written; the suite that is loaded is that text.
C24_FirstLineOnly ==
    FirstDep(suite.lines) # 0 =>
        /\ Rewrite(suite.lines) = FirstLineReplaced(suite.lines)
        /\ (SuiteStagePassed /\ "EXECUTING" \in Range(stages)) =>
              test_module = exec(FirstLineReplaced(suite.lines), EmptyGlobals,
                                 sys_modules, student_module_path).g

\* -------------------------------------------------------------- termination
\* main_runner has returned the Batch Result
BatchReturned == pc = "done" /\ retval.type = "json"

\* the runner is in a call that never returns: the submission's top-level
\* code or the test case that is due
Blocked ==
    \/ /\ rpc = "LOADING_SUBMISSION"
       /\ load_module_from_path("exam", student_module_path, files, sys_modules).exc
             = Never
    \/ /\ rpc = "EXECUTING" /\ run_started /\ queue # <<>>
       /\ RunBody(Head(queue).body, test_module).kind = "hang"

\* C25, the blocking half: nothing happens after a call that never returns;
\* the batch is not returned and the blocked submission and those after it
\* have no result.
C25_BlockedForever ==
    /\ [][~Blocked]_vars
    /\ [](Blocked => /\ pc = "call"
                     /\ ~BatchReturned
                     /\ Len(final_results) < Len(python_files)
                     /\ Len(final_results) <= i - 1)

\* C25, end of every run: the batch is returned, or blocked, or ended by an
\* exception that left main_runner
C25_ReturnedBlockedOrCrashed ==
    dirExists => <>(BatchReturned \/ Blocked \/ pc = "crashed")

\* C25: with the directory present, main_runner returns the Batch Result
\* unless a submission's top-level code or an executed test case never
\* terminates, in which case nothing more happens.
C25_ReturnsIffAllTerminate ==
    /\ dirExists => <>(BatchReturned \/ Blocked)
    /\ [][~Blocked]_vars
    /\ [](Blocked => ~BatchReturned)

\* --------------------------------------------------- the registry over time
\* the files, in processing order, whose load has succeeded so far
LoadedSoFar ==
    {j \in 1..Len(python_files) :
        \/ /\ j < i
           /\ ~OneFailureRecord(
                  ListOutput(Get(final_results, splitext(python_files[j])[1]).results),
                  "ModuleLoadError")
        \/ /\ j = i
           /\ pc \in {"call", "crashed"}
           /\ "LOADING_SUITE" \in Range(stages)}

\* C26, the state: "exam" is registered exactly when some submission has
\* loaded, and it is the module of the last one that did; so it is after the
\* batch has finished.
C26_HoldsLastLoaded ==
    IF LoadedSoFar = {}
    THEN sys_modules = NoModules
    ELSE /\ DOMAIN sys_modules = {"exam"}
         /\ sys_modules["exam"].file
               = python_files[CHOOSE j \in LoadedSoFar : \A k \in LoadedSoFar : k <= j]

\* C26, the steps: a failed load of a submission leaves the registry as it
\* was, and no step removes the "exam" entry.
C26_NeverRemoved ==
    /\ (rpc = "LOADING_SUBMISSION" /\ rpc' \in {"FAILED", "RAISED"}) =>
          sys_modules' = sys_modules
    /\ "exam" \in DOMAIN sys_modules => "exam" \in DOMAIN sys_modules'

SuiteNeverLoads(sf) ==
    \/ ~sf.exists
    \/ ~Compiles(Rewrite(sf.lines))
    \/ \E k \in 1..Len(sf.lines) : sf.lines[k].kind = "stmt" /\ sf.lines[k].raises

====
